---- MODULE Spec2Model ----
(***************************************************************************)
(* Task tracking of the download plugin (src/src/plugin/main.js): the map  *)
(* activeTasks of task elements, the map lastUpdateTimes, the removal      *)
(* timers armed with setTimeout, the 5s stall sweep armed with setInterval,*)
(* the handlers of the backend event channels and the two queue displays.  *)
(*                                                                         *)
(* Time is in milliseconds since the script was loaded.  A callback that   *)
(* is due runs before time advances (the handlers do no long synchronous   *)
(* work), and callbacks due at the same instant run in either order.       *)
(*                                                                         *)
(* Of the rendered document the state holds a task's status text and       *)
(* cancel button and, in the runs that track the document (doc.tracked),   *)
(* the task elements of the downloads container, its visibility and the    *)
(* entries of the two queue lists.  File names are display text only and   *)
(* are taken to be well-formed percent-encodings.                          *)
(*                                                                         *)
(* Spec is the timed run of one task; QueueSpec feeds queue snapshots and  *)
(* EventSpec feeds well-formed and malformed event payloads, both with the *)
(* document tracked and the clock standing still.                          *)
(***************************************************************************)
EXTENDS Integers, FiniteSets, Sequences, Bags, TLC

(* ---- bounds of the model ---- *)
TaskIds == {"t1", "t2"}
TimedIds == {"t1"}
MaxTime == 45000
TimeStep == 5000
MaxTimers == 2
MaxSeen == 2
MaxQueue == 2
MaxElems == 2
MaxDrops == 1
MaxPending == 2
MaxRetries == 2
MaxOps == 2
MaxCalls == 3
MaxSelected == 2
MaxFetches == 2

(* ---- delays and thresholds of the program, in ms ---- *)
sweepInterval == 5000
pollDelay == 100
maxAttempts == 10
stallThreshold == 30000
stalledRemoveDelay == 5000
saveonlyRemoveDelay == 5000
extractRemoveDelay == 5000
failedRemoveDelay == 10000
canceledRemoveDelay == 5000
failedBannerDelay == 10000
controlBannerDelay == 5000
installBannerDelay == 10000
dropDoneDelay == 3000
dropFailedDelay == 10000

(* banner texts, by their prefix in the source *)
DownloadFailedText == "download failed"
CancelFailedText == "cancel download failed"
QueueCancelFailedText == "cancel queued task failed"
CancelAllFailedText == "cancel all queued tasks failed"
RefreshFailedText == "refresh queue failed"
ExtractCancelFailedText == "cancel queued extract failed"
ExtractCancelAllFailedText == "cancel all queued extracts failed"
ExtractRefreshFailedText == "refresh extract queue failed"
InstallFailedText == "install failed"
UnsupportedText == "unsupported file format"
DropFailedText == "extract dropped file failed"
DropStartText == "extracting"
DropDoneText == "extract done"
DropErrorText == "extract failed"
fadeDelay == 300

(* ---- status texts (task.status.textContent) ---- *)
PENDING == "PENDING"                \* "准备下载"
DOWNLOADING == "DOWNLOADING"        \* "正在下载..."
DOWNLOADED == "DOWNLOADED"          \* "下载完成"
EXTRACTING == "EXTRACTING"          \* "解压中"
EXTRACTED == "EXTRACTED"            \* "解压完成"
EXTRACT_FAILED == "EXTRACT_FAILED"  \* "解压失败"
FAILED == "FAILED"                  \* DownloadFailedText
CANCELED == "CANCELED"              \* "已取消"
STALLED == "STALLED"                \* "下载中断"

ABSENT == "ABSENT"
NoTime == -1
(* activeTasks.get(id) of an id without entry *)
NoTask ==
  [status |-> ABSENT, cancelAttached |-> FALSE, cancelDisabled |-> FALSE,
   progressText |-> 0]

(* the value of taskId in a payload that has no taskId; a Map takes it as  *)
(* a key like any other                                                    *)
undefined == "undefined"
(* event.payload itself is undefined *)
NoPayload == "no payload"
(* the keys the two Maps can hold *)
Keys == TaskIds \cup {undefined}

VARIABLES
  now,              \* Date.now()
  nextSweep,        \* when the setInterval callback checkStalledDownloads is due next
  activeTasks,      \* Map taskId -> task element record (NoTask: no entry)
  lastUpdateTimes,  \* Map taskId -> timestamp (NoTime: no entry)
  timers,           \* bag of pending setTimeout removal callbacks
  invoked,          \* backend commands invoked by the step just taken
  doc,              \* the rendered document
  domOps,           \* rendered entries removed and created by the step just taken
  thrown,           \* the exception the step just taken ended with
  rpcs,             \* backend calls in flight, with what their promise has attached
  subs,             \* per channel: the callbacks subscribed with listen
  hist,             \* per id: events delivered so far (history, for stating properties)
  prevPass,         \* the snapshot displayed by the step just taken (history)
  config,           \* checkDataDirConfig: where it stands, and the overlay element
  boot,             \* waitForTauri: its polls, its promise and what the then callback started
  fm,               \* the file manager page: get_maps requests, the list shown, the batch buttons
  sw                \* the service worker: its cache, its network fetches and its answers

vars == <<now, nextSweep, activeTasks, lastUpdateTimes, timers, invoked,
          doc, domOps, thrown, rpcs, subs, hist, prevPass, config, boot, fm, sw>>

(* the handlers of the backend events, the timers and the controls leave   *)
(* the start-up of the script alone                                        *)
Elsewhere == UNCHANGED <<config, boot, fm, sw>>

(* checkDataDirConfig leaves the task tracking and the finished wait for   *)
(* the host alone                                                          *)
Tracking ==
  UNCHANGED <<now, nextSweep, activeTasks, lastUpdateTimes, timers, invoked,
              doc, domOps, thrown, rpcs, subs, hist, prevPass, boot, fm, sw>>

(* the file manager and the service worker run in contexts of their own:   *)
(* they leave the plugin alone                                             *)
Plugin ==
  UNCHANGED <<now, nextSweep, activeTasks, lastUpdateTimes, timers, invoked,
              doc, domOps, thrown, rpcs, subs, hist, prevPass, config, boot>>

Min(a, b) == IF a <= b THEN a ELSE b

Has(id) == activeTasks[id] # NoTask

StatusOf(tasks, id) == tasks[id].status

(* createTaskElement: a fresh element with the given status text and an    *)
(* attached, enabled cancel button.                                        *)
createTaskElement(initialStatus) ==
  [status |-> initialStatus, cancelAttached |-> TRUE, cancelDisabled |-> FALSE,
   progressText |-> 0]

(* "获取或创建任务元素" with every entry replaced by a new element         *)
getOrCreate_create(id, initialStatus) == createTaskElement(initialStatus)

(* "获取或创建任务元素": the entry of id, or a new element for it *)
getOrCreate(id, initialStatus) ==
  IF Has(id) THEN activeTasks[id] ELSE createTaskElement(initialStatus)

(* downloadsContainer.appendChild(taskElement) at the end of               *)
(* createTaskElement                                                       *)
appendTaskElement(d, id) ==
  IF d.tracked THEN [d EXCEPT !.elems[id] = @ + 1] ELSE d

(* downloadsContainer.style.display = "flex" *)
showContainer(d) ==
  IF d.tracked THEN [d EXCEPT !.display = "flex"] ELSE d

(* the environment delivers an event that creates a task element only      *)
(* while fewer than MaxElems elements of that id are in the container      *)
ElemRoom(id) == doc.tracked => doc.elems[id] < MaxElems

NoOps == [removed |-> 0, created |-> 0]

(* rendered entries a step removed and created *)
Ops(removed, created) ==
  IF doc.tracked THEN [removed |-> removed, created |-> created] ELSE NoOps

NoError == "none"
TypeError == "TypeError"
UnhandledRejection == "unhandledrejection"

(* setTimeout(() => removeTaskElement(taskId), delay); cb "stalled" is the *)
(* sweep's callback, which also deletes the lastUpdateTimes entry; cb      *)
(* "fade" is the callback removeTaskElement arms for the faded element,    *)
(* cb "hide" the callback that hides the warning banner.                   *)
Timer(id, delay, cb) ==
  [taskId |-> id, due |-> now + delay, cb |-> cb, stale |-> FALSE]

(* history: the timers of id that are pending when the entry of id is      *)
(* removed are marked stale; they were armed for the entry that is gone    *)
MarkStale(bag, id) ==
  LET mark(t) == IF t.taskId = id THEN [t EXCEPT !.stale = TRUE] ELSE t
      marked == {mark(t) : t \in BagToSet(bag)}
  IN [u \in marked |->
        IF u.taskId = id
        THEN CopiesIn(u, bag) + CopiesIn([u EXCEPT !.stale = FALSE], bag)
        ELSE CopiesIn(u, bag)]

setTimeout(bag, id, delay, cb) == bag (+) SetToBag({Timer(id, delay, cb)})

TimersOf(id) == {t \in BagToSet(timers) : t.taskId = id}

(* the environment delivers an event that arms a timer only while fewer    *)
(* than MaxTimers callbacks are pending                                    *)
TimerRoom == BagCardinality(timers) < MaxTimers

(* history: the events delivered for the ids in ids *)
Deliver(ids) ==
  hist' = [id \in Keys |->
             IF id \in ids
             THEN [n |-> Min(hist[id].n + 1, MaxSeen),
                   at |-> now,
                   changed |-> StatusOf(activeTasks', id) # StatusOf(activeTasks, id)]
             ELSE hist[id]]

NoPass == [kind |-> "none", waiting |-> <<>>, active |-> {}, repeat |-> FALSE]

(* history: the snapshot a display function was called with, and whether   *)
(* the step before was the same call with the same snapshot; kept in the   *)
(* runs that track the document                                            *)
Pass(kind, waiting, active) ==
  IF doc.tracked
  THEN [kind |-> kind, waiting |-> waiting, active |-> active,
        repeat |-> /\ prevPass.kind = kind
                   /\ prevPass.waiting = waiting
                   /\ prevPass.active = active]
  ELSE NoPass

RefreshCall == [cmd |-> "refresh_download_queue", taskId |-> "", reason |-> ""]
RefreshExtractCall == [cmd |-> "refresh_extract_queue", taskId |-> "", reason |-> ""]
CancelCall(id) == [cmd |-> "cancel_download", taskId |-> id, reason |-> ""]
CancelAllCall == [cmd |-> "cancel_all_downloads", taskId |-> "", reason |-> ""]
CancelExtractCall(id) == [cmd |-> "cancel_extract", taskId |-> id, reason |-> ""]
CancelAllExtractsCall == [cmd |-> "cancel_all_extracts", taskId |-> "", reason |-> ""]
InstallCall == [cmd |-> "install", taskId |-> "", reason |-> ""]
ExtractDroppedCall == [cmd |-> "extract_dropped_file", taskId |-> "", reason |-> ""]
StalledCancel(id) == [cmd |-> "cancel_download", taskId |-> id, reason |-> "stalled"]

(* a call whose promise is awaited in a try block whose catch shows the    *)
(* banner text for ms milliseconds                                         *)
Awaited(call, text, ms) ==
  [call |-> call, onReject |-> "banner", text |-> text, ms |-> ms]

(* a call whose promise has .catch(console.error) attached *)
Logged(call) == [call |-> call, onReject |-> "log", text |-> "", ms |-> 0]

(* a call whose promise is dropped: nothing handles its rejection *)
Floating(call) == [call |-> call, onReject |-> "none", text |-> "", ms |-> 0]

(* window.__TAURI__.core.invoke for each of calls *)
Issue(calls) ==
  /\ invoked' = {c.call : c \in calls}
  /\ rpcs' = IF rpcs.tracked THEN [rpcs EXCEPT !.calls = @ \cup calls] ELSE rpcs

(* the channels the task handlers listen to, one callback each *)
InitialSubs == [extractStart |-> 1, extractComplete |-> 1, observing |-> TRUE]

(* warningDisplay while hidden; since and ms are history: when the banner  *)
(* was shown and the delay its own timer was armed with                    *)
NoWarning == [display |-> "none", text |-> "", since |-> NoTime, ms |-> 0]

(* no banner is shown *)
showBanner_none(d, text, ms) == d

(* warningDisplay.textContent = text; warningDisplay.style.display =       *)
(* "block"                                                                 *)
showBanner(d, text, ms) ==
  IF d.tracked
  THEN [d EXCEPT !.warning = [display |-> "block", text |-> text, since |-> now, ms |-> ms]]
  ELSE d

(* setTimeout(() => { warningDisplay.style.display = "none"; ... }, ms),   *)
(* armed with every banner                                                 *)
hideLater(bag, ms) ==
  IF doc.tracked THEN setTimeout(bag, "", ms, "hide") ELSE bag

(* a queue list as built at load: hidden, holding only the "队列为空" note *)
EmptyView == [display |-> "none", entries |-> <<>>]

(* the document after the script has built its containers *)
InitialDoc(tracked) ==
  [tracked |-> tracked,
   elems   |-> [id \in Keys |-> 0],
   display |-> "",
   warning |-> NoWarning,
   queue   |-> EmptyView,
   extract |-> EmptyView,
   bars    |-> FALSE]

(* the overlay as created at load, and checkDataDirConfig not yet called;  *)
(* retries counts the calls after the first (history)                      *)
InitialConfig ==
  [pc |-> "idle", attached |-> TRUE, display |-> "none", retries |-> 0]

(* waitForTauri() is called: no poll yet, the interval armed, the promise  *)
(* pending.  resolves counts the calls of resolve, firstAvailable is the   *)
(* number of the first poll that found the host interface (0: none yet),   *)
(* both history.                                                           *)
InitialBoot ==
  [attempts |-> 0, polling |-> TRUE, settled |-> "pending", resolves |-> 0,
   firstAvailable |-> 0, ran |-> FALSE, listening |-> FALSE, sweeping |-> FALSE]

(* the wait over at the first poll, and the then callback run *)
ReadyBoot ==
  [attempts |-> 1, polling |-> FALSE, settled |-> "true", resolves |-> 1,
   firstAvailable |-> 1, ran |-> TRUE, listening |-> TRUE, sweeping |-> TRUE]

(* the three batch buttons of the file manager *)
Buttons == {"batchMountBtn", "batchUnmountBtn", "batchDeleteBtn"}

(* no file list on the page: "正在加载..." or an error text *)
NoList == [call |-> 0, asked |-> 0, since |-> 0]

(* no batch function running *)
NoBatch == [pc |-> "idle", kind |-> "", left |-> 0, count |-> 0, exited |-> FALSE]

(* the file manager after its start-up function: loadFileList(2) has asked *)
(* for get_maps and waits.  epoch counts the completed backend operations  *)
(* (history); calls are the get_maps requests with the epoch they were     *)
(* made in; p is getMaps.p as an index of calls, 0 when undefined; a       *)
(* loader is a loadFileList at its await, since the epoch it was called    *)
(* in; shown is the list on the page with the request it was built from;   *)
(* disabled is the .disabled of each batch button.  No checkbox is checked *)
(* yet, so the buttons start as updateSelection leaves them for an empty   *)
(* selection.                                                              *)
InitialFm ==
  [epoch |-> 0,
   calls |-> <<[asked |-> 0, state |-> "pending"]>>,
   p |-> 1,
   loaders |-> {[call |-> 1, since |-> 0, batch |-> FALSE]},
   shown |-> NoList,
   disabled |-> [b \in Buttons |-> TRUE],
   batch |-> NoBatch]

(* a URL of a request: its origin (hostname and port) and its path, the    *)
(* path as the sequence of its separators and names                        *)
location == [hostname |-> "h", port |-> 1]

Origins == {location, [hostname |-> "h", port |-> 2], [hostname |-> "o", port |-> 1]}

Paths ==
  {<<"/">>, <<"/", "assets", "/", "a.js">>, <<"/", "static", "/", "s.css">>,
   <<"/", "assetsx", "/", "a.js">>, <<"/", "api">>}

Requests == [origin : Origins, pathname : Paths]

(* no response: caches.match found nothing, respondWith not yet settled *)
NoResponse == [n |-> 0, ok |-> FALSE]

(* respondWith settled with a network error *)
NetworkError == [n |-> -1, ok |-> FALSE]

(* the service worker activated with an empty cache: no fetch yet.         *)
(* fetches are the fetch events handled with respondWith, each with the    *)
(* result of caches.match, its network fetch and the answer given to the   *)
(* page; puts are the cache.put calls that wait for caches.open.           *)
InitialSw ==
  [cache |-> [r \in Requests |-> NoResponse],
   fetches |-> <<>>,
   puts |-> {}]

InitAt(d, rpcTracked, b) ==
  /\ boot = b
  /\ sw = InitialSw
  /\ fm = InitialFm
  /\ now = 0
  /\ nextSweep = sweepInterval
  /\ activeTasks = [id \in Keys |-> NoTask]
  /\ lastUpdateTimes = [id \in Keys |-> NoTime]
  /\ timers = EmptyBag
  /\ invoked = {}
  /\ doc = d
  /\ domOps = NoOps
  /\ thrown = NoError
  /\ rpcs = [tracked |-> rpcTracked, calls |-> {}]
  /\ subs = InitialSubs
  /\ hist = [id \in Keys |-> [n |-> 0, at |-> NoTime, changed |-> FALSE]]
  /\ prevPass = NoPass
  /\ config = InitialConfig

InitFrom(d, rpcTracked) == InitAt(d, rpcTracked, ReadyBoot)

InitWith(tracked, rpcTracked) == InitFrom(InitialDoc(tracked), rpcTracked)

Init == InitWith(FALSE, FALSE)

(* the handler returned at "if (!taskId) return" *)
Dropped ==
  /\ Elsewhere
  /\ Issue({})
  /\ UNCHANGED subs
  /\ domOps' = NoOps
  /\ thrown' = NoError
  /\ prevPass' = NoPass
  /\ UNCHANGED <<now, nextSweep, activeTasks, lastUpdateTimes, timers, doc, hist>>

(* the progress values of the payloads, in hundredths of a percent. A     *)
(* value ending in 5 is one the number format holds exactly (x.25, x.75),   *)
(* so that it is the tie it looks like.                                    *)
Progresses == {0, 4225, 4234, 4237, 4275, 9996, 10000}

(* the values followed: one value where the progress text is not tracked *)
ProgressInputs == IF doc.bars THEN Progresses ELSE {0}

(* the digits are cut off *)
toFixed1_floor(h) == h \div 10

(* progress.toFixed(1), in tenths: the nearest tenth, the larger one of two *)
(* equally near                                                            *)
toFixed1(h) == (h + 5) \div 10

(* task.progressText.textContent = text, in tenths of a percent *)
setProgressText(task, tenths) ==
  IF doc.bars THEN [task EXCEPT !.progressText = tenths] ELSE task

(* listen("download-progress"): the payload is destructured as it comes,   *)
(* without a default and without a test of taskId; progress.toFixed throws *)
(* when the payload has no progress, after the entry and the timestamp     *)
(* have been written and before the status text is                        *)
DownloadProgressOf(p, hasProgress, h) ==
  IF p = NoPayload
  THEN /\ thrown' = TypeError
       /\ Elsewhere
       /\ Issue({})
       /\ UNCHANGED subs
       /\ domOps' = NoOps
       /\ prevPass' = NoPass
       /\ UNCHANGED <<now, nextSweep, activeTasks, lastUpdateTimes, timers, doc, hist>>
  ELSE /\ ~Has(p) => ElemRoom(p)
       /\ activeTasks' = [activeTasks EXCEPT ![p] =
             LET task == getOrCreate(p, DOWNLOADING)
             IN IF hasProgress
                THEN [setProgressText(task, toFixed1(h)) EXCEPT !.status = DOWNLOADING]
                ELSE task]
       /\ doc' = IF Has(p) THEN showContainer(doc)
                 ELSE appendTaskElement(showContainer(doc), p)
       /\ domOps' = IF Has(p) THEN NoOps ELSE Ops(0, 1)
       /\ lastUpdateTimes' = [lastUpdateTimes EXCEPT ![p] = now]
       /\ thrown' = IF hasProgress THEN NoError ELSE TypeError
       /\ Elsewhere
       /\ Issue({})
       /\ UNCHANGED subs
       /\ prevPass' = NoPass
       /\ Deliver({p})
       /\ UNCHANGED <<now, nextSweep, timers>>

(* the handler, for a payload with any of the progress values followed *)
DownloadProgress(p, hasProgress) ==
  \E h \in ProgressInputs : DownloadProgressOf(p, hasProgress, h)

(* listen("download-complete") *)
DownloadComplete(id, success, saveonly) ==
  IF id = undefined THEN Dropped
  ELSE
  /\ (Has(id) /\ saveonly) => TimerRoom
  /\ activeTasks' = [activeTasks EXCEPT ![id] =
        IF Has(id) /\ success
        THEN [setProgressText(@, 1000) EXCEPT
                !.status = DOWNLOADED, !.cancelAttached = FALSE]
        ELSE @]
  /\ timers' = IF Has(id) /\ saveonly
               THEN setTimeout(timers, id, saveonlyRemoveDelay, "remove")
               ELSE timers
  /\ Elsewhere
  /\ Issue({})
  /\ UNCHANGED subs
  /\ domOps' = NoOps
  /\ thrown' = NoError
  /\ prevPass' = NoPass
  /\ Deliver({id})
  /\ UNCHANGED <<now, nextSweep, lastUpdateTimes, doc>>

(* listen("extract-start") *)
ExtractStart(id) ==
  IF id = undefined THEN Dropped
  ELSE
  /\ activeTasks' = [activeTasks EXCEPT ![id] =
        IF Has(id) THEN [@ EXCEPT !.status = EXTRACTING] ELSE @]
  /\ Elsewhere
  /\ Issue({})
  /\ UNCHANGED subs
  /\ domOps' = NoOps
  /\ thrown' = NoError
  /\ prevPass' = NoPass
  /\ Deliver({id})
  /\ UNCHANGED <<now, nextSweep, lastUpdateTimes, timers, doc>>

(* extract-complete with the failure kept on screen as long as a failed    *)
(* download: failedRemoveDelay in place of extractRemoveDelay              *)
ExtractComplete_failedDelay(id, success) ==
  IF id = undefined THEN Dropped
  ELSE
  /\ Has(id) => TimerRoom
  /\ activeTasks' = [activeTasks EXCEPT ![id] =
        IF Has(id)
        THEN [@ EXCEPT !.status = IF success THEN EXTRACTED ELSE EXTRACT_FAILED]
        ELSE @]
  /\ timers' = IF Has(id)
               THEN setTimeout(timers, id,
                               IF success THEN extractRemoveDelay ELSE failedRemoveDelay,
                               "remove")
               ELSE timers
  /\ Elsewhere
  /\ Issue({})
  /\ UNCHANGED subs
  /\ domOps' = NoOps
  /\ thrown' = NoError
  /\ prevPass' = NoPass
  /\ Deliver({id})
  /\ UNCHANGED <<now, nextSweep, lastUpdateTimes, doc>>

(* listen("extract-complete") *)
ExtractComplete(id, success) ==
  IF id = undefined THEN Dropped
  ELSE
  /\ Has(id) => TimerRoom
  /\ activeTasks' = [activeTasks EXCEPT ![id] =
        IF Has(id)
        THEN [@ EXCEPT !.status = IF success THEN EXTRACTED ELSE EXTRACT_FAILED]
        ELSE @]
  /\ timers' = IF Has(id)
               THEN setTimeout(timers, id, extractRemoveDelay, "remove")
               ELSE timers
  /\ Elsewhere
  /\ Issue({})
  /\ UNCHANGED subs
  /\ domOps' = NoOps
  /\ thrown' = NoError
  /\ prevPass' = NoPass
  /\ Deliver({id})
  /\ UNCHANGED <<now, nextSweep, lastUpdateTimes, doc>>

(* listen("download-task-start"): a new element is created and stored      *)
(* under the id whether or not the id has an entry; the element of the     *)
(* entry it replaces stays in the container                               *)
DownloadTaskStart(id) ==
  IF id = undefined THEN Dropped
  ELSE
  /\ ElemRoom(id)
  /\ activeTasks' = [activeTasks EXCEPT ![id] = createTaskElement(PENDING)]
  /\ doc' = appendTaskElement(showContainer(doc), id)
  /\ domOps' = Ops(0, 1)
  /\ Elsewhere
  /\ Issue({Logged(RefreshCall)})
  /\ UNCHANGED subs
  /\ thrown' = NoError
  /\ prevPass' = NoPass
  /\ Deliver({id})
  /\ UNCHANGED <<now, nextSweep, lastUpdateTimes, timers>>

(* listen("download-task-add"): logs and refreshes the queue *)
DownloadTaskAdd(id) ==
  IF id = undefined THEN Dropped
  ELSE
  /\ Elsewhere
  /\ Issue({Logged(RefreshCall)})
  /\ UNCHANGED subs
  /\ domOps' = NoOps
  /\ thrown' = NoError
  /\ prevPass' = NoPass
  /\ UNCHANGED <<now, nextSweep, activeTasks, lastUpdateTimes, timers, doc, hist>>

(* listen("download-failed"): the task is marked and removed later; for   *)
(* an id without entry the failure is shown in the warning banner          *)
DownloadFailed(id) ==
  IF id = undefined THEN Dropped
  ELSE
  /\ (Has(id) \/ doc.tracked) => TimerRoom
  /\ activeTasks' = [activeTasks EXCEPT ![id] =
        IF Has(id) THEN [@ EXCEPT !.status = FAILED] ELSE @]
  /\ timers' = IF Has(id)
               THEN setTimeout(timers, id, failedRemoveDelay, "remove")
               ELSE hideLater(timers, failedBannerDelay)
  /\ doc' = IF Has(id) THEN doc ELSE showBanner(doc, DownloadFailedText, failedBannerDelay)
  /\ Elsewhere
  /\ Issue({Logged(RefreshCall)})
  /\ UNCHANGED subs
  /\ domOps' = NoOps
  /\ thrown' = NoError
  /\ prevPass' = NoPass
  /\ Deliver({id})
  /\ UNCHANGED <<now, nextSweep, lastUpdateTimes>>

(* listen("download-canceled") *)
DownloadCanceled(id) ==
  IF id = undefined THEN Dropped
  ELSE
  /\ Has(id) => TimerRoom
  /\ activeTasks' = [activeTasks EXCEPT ![id] =
        IF Has(id) THEN [@ EXCEPT !.status = CANCELED, !.cancelDisabled = TRUE] ELSE @]
  /\ timers' = IF Has(id)
               THEN setTimeout(timers, id, canceledRemoveDelay, "remove")
               ELSE timers
  /\ Elsewhere
  /\ Issue({Logged(RefreshCall)})
  /\ UNCHANGED subs
  /\ domOps' = NoOps
  /\ thrown' = NoError
  /\ prevPass' = NoPass
  /\ Deliver({id})
  /\ UNCHANGED <<now, nextSweep, lastUpdateTimes, doc>>

(* the position the comment above the code's line describes: index + 1     *)
(* with an active task, index without                                      *)
QueuePosition_index(hasActiveTasks, index) ==
  IF hasActiveTasks THEN index + 1 ELSE index

(* the position shown for the waiting task at index (from 0) of the        *)
(* download queue; 0 is rendered as "即将开始", n > 0 as "#n"              *)
QueuePosition(hasActiveTasks, index) ==
  IF hasActiveTasks THEN index + 1 ELSE 0

(* the download queue list built without emptying it first *)
renderQueue_append(waiting, active) ==
  [display |-> IF Len(waiting) > 0 THEN "block" ELSE "none",
   entries |-> doc.queue.entries \o
               [i \in 1..Len(waiting) |->
                  [id |-> waiting[i],
                   position |-> QueuePosition(Cardinality(active) > 0, i - 1)]]]

(* the download queue list after queueList.innerHTML = "" and              *)
(* waitingTasks.forEach                                                    *)
renderQueue(waiting, active) ==
  [display |-> IF Len(waiting) > 0 THEN "block" ELSE "none",
   entries |-> [i \in 1..Len(waiting) |->
                  [id |-> waiting[i],
                   position |-> QueuePosition(Cardinality(active) > 0, i - 1)]]]

(* updateQueueDisplay, dropping every entry the snapshot does not list as  *)
(* active                                                                  *)
updateQueueDisplay_prune(waiting, active) ==
  /\ \A id \in active : ~Has(id) => ElemRoom(id)
  /\ activeTasks' = [id \in Keys |->
        IF id \in active THEN getOrCreate(id, DOWNLOADING) ELSE NoTask]
  /\ lastUpdateTimes' = [id \in Keys |->
        IF id \in active THEN now ELSE NoTime]
  /\ doc' = IF doc.tracked
            THEN [doc EXCEPT
                    !.queue = renderQueue(waiting, active),
                    !.display = IF active # {} THEN "flex" ELSE @,
                    !.elems = [id \in Keys |->
                                 IF id \in active
                                 THEN (IF Has(id) THEN @[id] ELSE @[id] + 1)
                                 ELSE 0]]
            ELSE doc
  /\ domOps' = Ops(Len(doc.queue.entries),
                   Len(waiting) + Cardinality({id \in active : ~Has(id)}))
  /\ Elsewhere
  /\ Issue({})
  /\ UNCHANGED subs
  /\ thrown' = NoError
  /\ prevPass' = Pass("download", waiting, active)
  /\ Deliver(active)
  /\ UNCHANGED <<now, nextSweep, timers>>

(* listen("download-queue-update") -> updateQueueDisplay: the list is      *)
(* emptied and built again from the snapshot, then every active task of    *)
(* the snapshot gets an entry if it has none, and a fresh timestamp.  The  *)
(* active tasks are taken as a set: their order and repetitions have no    *)
(* effect.                                                                 *)
updateQueueDisplay(waiting, active) ==
  /\ \A id \in active : ~Has(id) => ElemRoom(id)
  /\ activeTasks' = [id \in Keys |->
        IF id \in active THEN getOrCreate(id, DOWNLOADING) ELSE activeTasks[id]]
  /\ lastUpdateTimes' = [id \in Keys |->
        IF id \in active THEN now ELSE lastUpdateTimes[id]]
  /\ doc' = IF doc.tracked
            THEN [doc EXCEPT
                    !.queue = renderQueue(waiting, active),
                    !.display = IF active # {} THEN "flex" ELSE @,
                    !.elems = [id \in Keys |->
                                 IF id \in active /\ ~Has(id) THEN @[id] + 1 ELSE @[id]]]
            ELSE doc
  /\ domOps' = Ops(Len(doc.queue.entries),
                   Len(waiting) + Cardinality({id \in active : ~Has(id)}))
  /\ Elsewhere
  /\ Issue({})
  /\ UNCHANGED subs
  /\ thrown' = NoError
  /\ prevPass' = Pass("download", waiting, active)
  /\ Deliver(active)
  /\ UNCHANGED <<now, nextSweep, timers>>

(* the position shown for the waiting task at index of the extract queue *)
ExtractQueuePosition(hasActiveTasks, index) ==
  IF hasActiveTasks THEN index + 1 ELSE 0

(* the extract queue list after waitingTasks.forEach *)
renderExtractQueue(waiting, active) ==
  [display |-> IF Len(waiting) > 0 THEN "block" ELSE "none",
   entries |-> [i \in 1..Len(waiting) |->
                  [id |-> waiting[i],
                   position |-> ExtractQueuePosition(Cardinality(active) > 0, i - 1)]]]

(* listen("extract-queue-update") -> updateExtractQueueDisplay: the list   *)
(* is emptied and built again; the function ends there, it has no loop     *)
(* over the active tasks                                                   *)
updateExtractQueueDisplay(waiting, active) ==
  /\ doc' = IF doc.tracked
            THEN [doc EXCEPT !.extract = renderExtractQueue(waiting, active)]
            ELSE doc
  /\ domOps' = Ops(Len(doc.extract.entries), Len(waiting))
  /\ Elsewhere
  /\ Issue({})
  /\ UNCHANGED subs
  /\ thrown' = NoError
  /\ prevPass' = Pass("extract", waiting, active)
  /\ UNCHANGED <<now, nextSweep, activeTasks, lastUpdateTimes, timers, hist>>

(* the same test with the threshold included: >= in place of >             *)
IsStalled_inclusive(id) ==
  /\ lastUpdateTimes[id] # NoTime
  /\ now - lastUpdateTimes[id] >= stallThreshold

(* the test of checkStalledDownloads for one task: an entry of             *)
(* lastUpdateTimes (a timestamp is never 0) older than stallThreshold      *)
IsStalled(id) ==
  /\ lastUpdateTimes[id] # NoTime
  /\ now - lastUpdateTimes[id] > stallThreshold

(* setInterval(checkStalledDownloads, 5000) *)
checkStalledDownloads ==
  /\ now = nextSweep
  /\ nextSweep' = nextSweep + sweepInterval
  /\ LET stalled == {id \in Keys : Has(id) /\ IsStalled(id)} IN
       /\ activeTasks' = [id \in Keys |->
             IF id \in stalled THEN [activeTasks[id] EXCEPT !.status = STALLED]
             ELSE activeTasks[id]]
       /\ Elsewhere
       /\ Issue({Floating(StalledCancel(id)) : id \in stalled})
       /\ UNCHANGED subs
       /\ timers' = timers (+) SetToBag({Timer(id, stalledRemoveDelay, "stalled") : id \in stalled})
  /\ domOps' = NoOps
  /\ thrown' = NoError
  /\ prevPass' = NoPass
  /\ UNCHANGED <<now, lastUpdateTimes, doc, hist>>

(* removeTaskElement, called from a removal timer.  The function is        *)
(* declared outside the callback that declares lastUpdateTimes, so its     *)
(* typeof lastUpdateTimes is "undefined" and it deletes nothing from that  *)
(* map; the stall sweep's callback, inside that scope, deletes the entry   *)
(* whether or not the task is still there.  The element fades and leaves   *)
(* the document fadeDelay later.                                           *)
removeTaskElement(t) ==
  /\ BagIn(t, timers)
  /\ t.cb \in {"remove", "stalled"}
  /\ t.due <= now
  /\ timers' = LET rest == timers (-) SetToBag({t}) IN
               IF ~Has(t.taskId) THEN rest
               ELSE IF doc.tracked
                    THEN setTimeout(MarkStale(rest, t.taskId), t.taskId, fadeDelay, "fade")
                    ELSE MarkStale(rest, t.taskId)
  /\ activeTasks' = [activeTasks EXCEPT ![t.taskId] = NoTask]
  /\ lastUpdateTimes' = [lastUpdateTimes EXCEPT ![t.taskId] =
        IF t.cb = "stalled" THEN NoTime ELSE @]
  /\ Elsewhere
  /\ Issue({})
  /\ UNCHANGED subs
  /\ domOps' = NoOps
  /\ thrown' = NoError
  /\ prevPass' = NoPass
  /\ UNCHANGED <<now, nextSweep, doc, hist>>

(* the callback removeTaskElement arms: the faded element leaves the       *)
(* document, the container is hidden when the map is empty, the queue is   *)
(* refreshed                                                               *)
fadeOut(t) ==
  /\ BagIn(t, timers)
  /\ t.cb = "fade"
  /\ t.due <= now
  /\ timers' = timers (-) SetToBag({t})
  /\ doc' = [doc EXCEPT
               !.elems[t.taskId] = @ - 1,
               !.display = IF \A id \in Keys : ~Has(id) THEN "none" ELSE @]
  /\ domOps' = Ops(1, 0)
  /\ Elsewhere
  /\ Issue({Logged(RefreshCall)})
  /\ UNCHANGED subs
  /\ thrown' = NoError
  /\ prevPass' = NoPass
  /\ UNCHANGED <<now, nextSweep, activeTasks, lastUpdateTimes, hist>>

(* the callback armed with a banner: it hides warningDisplay, whichever    *)
(* banner is shown by then; the text of the hidden banner, which some of   *)
(* the callbacks clear and others leave, is taken as cleared               *)
hideBanner(t) ==
  /\ BagIn(t, timers)
  /\ t.cb = "hide"
  /\ t.due <= now
  /\ timers' = timers (-) SetToBag({t})
  /\ doc' = [doc EXCEPT !.warning = NoWarning]
  /\ Elsewhere
  /\ Issue({})
  /\ domOps' = NoOps
  /\ thrown' = NoError
  /\ prevPass' = NoPass
  /\ UNCHANGED <<now, nextSweep, activeTasks, lastUpdateTimes, subs, hist>>

(* the model follows at most MaxPending pending calls of the controls *)
RpcRoom == Cardinality(rpcs.calls) < MaxPending

(* a user action or observer callback that only issues calls: no map, no   *)
(* timer, no element is written                                            *)
OnlyIssue(calls) ==
  /\ RpcRoom
  /\ Elsewhere
  /\ Issue(calls)
  /\ domOps' = NoOps
  /\ thrown' = NoError
  /\ prevPass' = NoPass
  /\ UNCHANGED <<now, nextSweep, activeTasks, lastUpdateTimes, timers, doc, subs, hist>>

(* the cancel button of a task marks the entry canceled at once *)
CancelClick_optimistic(id) ==
  /\ Has(id)
  /\ activeTasks[id].cancelAttached
  /\ ~activeTasks[id].cancelDisabled
  /\ activeTasks' = [activeTasks EXCEPT ![id] =
        [@ EXCEPT !.status = CANCELED, !.cancelDisabled = TRUE]]
  /\ Elsewhere
  /\ Issue({Awaited(CancelCall(id), CancelFailedText, controlBannerDelay)})
  /\ domOps' = NoOps
  /\ thrown' = NoError
  /\ prevPass' = NoPass
  /\ UNCHANGED <<now, nextSweep, lastUpdateTimes, timers, doc, subs, hist>>

(* cancelButton click of a task element; a removed or disabled button      *)
(* takes no click                                                          *)
CancelClick(id) ==
  /\ Has(id)
  /\ activeTasks[id].cancelAttached
  /\ ~activeTasks[id].cancelDisabled
  /\ OnlyIssue({Awaited(CancelCall(id), CancelFailedText, controlBannerDelay)})

(* cancelButton click of the i-th entry of the waiting list *)
QueueCancelClick(i) ==
  /\ doc.queue.display = "block"
  /\ i \in 1..Len(doc.queue.entries)
  /\ OnlyIssue({Awaited(CancelCall(doc.queue.entries[i].id),
                        QueueCancelFailedText, controlBannerDelay)})

(* cancelAllButton click of the waiting list *)
CancelAllClick ==
  /\ doc.queue.display = "block"
  /\ OnlyIssue(IF Len(doc.queue.entries) > 0
               THEN {Awaited(CancelAllCall, CancelAllFailedText, controlBannerDelay)}
               ELSE {})

(* refreshButton click of the waiting list *)
RefreshClick ==
  /\ doc.queue.display = "block"
  /\ OnlyIssue({Awaited(RefreshCall, RefreshFailedText, controlBannerDelay)})

(* cancelButton click of the i-th entry of the extract waiting list *)
ExtractQueueCancelClick(i) ==
  /\ doc.extract.display = "block"
  /\ i \in 1..Len(doc.extract.entries)
  /\ OnlyIssue({Awaited(CancelExtractCall(doc.extract.entries[i].id),
                        ExtractCancelFailedText, controlBannerDelay)})

(* cancelAllButton click of the extract waiting list *)
ExtractCancelAllClick ==
  /\ doc.extract.display = "block"
  /\ OnlyIssue(IF Len(doc.extract.entries) > 0
               THEN {Awaited(CancelAllExtractsCall, ExtractCancelAllFailedText,
                             controlBannerDelay)}
               ELSE {})

(* refreshButton click of the extract waiting list *)
ExtractRefreshClick ==
  /\ doc.extract.display = "block"
  /\ OnlyIssue({Awaited(RefreshExtractCall, ExtractRefreshFailedText,
                        controlBannerDelay)})

(* handleDownloadLink: a click on a download link *)
InstallClick ==
  OnlyIssue({Awaited(InstallCall, InstallFailedText, installBannerDelay)})

(* setupShortermObserver's callback once the login button is in the page:  *)
(* the button is removed, the queue refresh is requested and its promise   *)
(* dropped, the observer disconnects                                       *)
LoginButtonObserved ==
  /\ RpcRoom
  /\ subs.observing
  /\ subs' = [subs EXCEPT !.observing = FALSE]
  /\ Elsewhere
  /\ Issue({Floating(RefreshCall)})
  /\ domOps' = NoOps
  /\ thrown' = NoError
  /\ prevPass' = NoPass
  /\ UNCHANGED <<now, nextSweep, activeTasks, lastUpdateTimes, timers, doc, hist>>

(* the promise of a pending call resolves: the await returns *)
RpcResolve(c) ==
  /\ c \in rpcs.calls
  /\ rpcs' = [rpcs EXCEPT !.calls = @ \ {c}]
  /\ Elsewhere
  /\ invoked' = {}
  /\ domOps' = NoOps
  /\ thrown' = NoError
  /\ prevPass' = NoPass
  /\ UNCHANGED <<now, nextSweep, activeTasks, lastUpdateTimes, timers, doc, subs, hist>>

(* the promise of a pending call rejects: the catch block of its call site *)
(* shows the banner, .catch logs, a dropped promise raises                 *)
(* unhandledrejection                                                      *)
RpcReject(c) ==
  /\ c \in rpcs.calls
  /\ c.onReject = "banner" => TimerRoom
  /\ rpcs' = [rpcs EXCEPT !.calls = @ \ {c}]
  /\ Elsewhere
  /\ invoked' = {}
  /\ doc' = IF c.onReject = "banner" THEN showBanner(doc, c.text, c.ms) ELSE doc
  /\ timers' = IF c.onReject = "banner" THEN hideLater(timers, c.ms) ELSE timers
  /\ thrown' = IF c.onReject = "none" THEN UnhandledRejection ELSE NoError
  /\ domOps' = NoOps
  /\ prevPass' = NoPass
  /\ UNCHANGED <<now, nextSweep, activeTasks, lastUpdateTimes, subs, hist>>

(* handleDroppedFile: a file that is no archive shows the banner; for an   *)
(* archive one more listener is registered on extract-start and on         *)
(* extract-complete and the extraction is requested                        *)
DropFile(isArchive) ==
  /\ RpcRoom
  /\ ~isArchive => TimerRoom
  /\ isArchive => subs.extractStart < 1 + MaxDrops
  /\ subs' = IF isArchive
             THEN [subs EXCEPT !.extractStart = @ + 1, !.extractComplete = @ + 1]
             ELSE subs
  /\ Elsewhere
  /\ Issue(IF isArchive
           THEN {Awaited(ExtractDroppedCall, DropFailedText, dropFailedDelay)}
           ELSE {})
  /\ doc' = IF isArchive THEN doc
            ELSE showBanner(doc, UnsupportedText, controlBannerDelay)
  /\ timers' = IF isArchive THEN timers ELSE hideLater(timers, controlBannerDelay)
  /\ domOps' = NoOps
  /\ thrown' = NoError
  /\ prevPass' = NoPass
  /\ UNCHANGED <<now, nextSweep, activeTasks, lastUpdateTimes, hist>>

(* the extract-start listener of a dropped archive, for the event of its   *)
(* file                                                                    *)
DroppedExtractStart ==
  /\ subs.extractStart > 1
  /\ doc' = showBanner(doc, DropStartText, 0)
  /\ Elsewhere
  /\ Issue({})
  /\ domOps' = NoOps
  /\ thrown' = NoError
  /\ prevPass' = NoPass
  /\ UNCHANGED <<now, nextSweep, activeTasks, lastUpdateTimes, timers, subs, hist>>

(* the extract-complete listener of a dropped archive, for the event of    *)
(* its file: the text is replaced, the hide timer armed, and the two       *)
(* values listen() returned are called. listen is the host library's: the  *)
(* call either unregisters both listeners (unlistens) or, the value being  *)
(* a promise, throws at the first of them.                                 *)
DroppedExtractComplete(success, unlistens) ==
  /\ subs.extractComplete > 1
  /\ TimerRoom
  /\ doc' = IF doc.tracked
            THEN [doc EXCEPT !.warning.text =
                    IF success THEN DropDoneText ELSE DropErrorText]
            ELSE doc
  /\ timers' = hideLater(timers, IF success THEN dropDoneDelay ELSE dropFailedDelay)
  /\ subs' = IF unlistens
             THEN [subs EXCEPT !.extractStart = @ - 1, !.extractComplete = @ - 1]
             ELSE subs
  /\ thrown' = IF unlistens THEN NoError ELSE TypeError
  /\ Elsewhere
  /\ Issue({})
  /\ domOps' = NoOps
  /\ prevPass' = NoPass
  /\ UNCHANGED <<now, nextSweep, activeTasks, lastUpdateTimes, hist>>

(* ---- checkDataDirConfig, one action per await ---- *)

(* showOverlay: overlay.style.display = "flex" *)
showOverlay(c) == [c EXCEPT !.display = "flex"]

(* hideOverlay: overlay.remove() *)
hideOverlay(c) == [c EXCEPT !.attached = FALSE]

(* the user sees the overlay *)
OverlayVisible == config.attached /\ config.display = "flex"

(* checkDataDirConfig() is called: read_config is requested *)
CheckDataDirConfig ==
  /\ config.pc = "idle"
  /\ config' = [config EXCEPT !.pc = "read"]
  /\ Tracking

(* read_config resolves: with a configured directory the function returns, *)
(* otherwise the overlay is shown and show_directory_dialog is requested   *)
ReadConfigResolves(configured) ==
  /\ config.pc = "read"
  /\ config' = IF configured
               THEN [config EXCEPT !.pc = "done"]
               ELSE [showOverlay(config) EXCEPT !.pc = "dialog"]
  /\ Tracking

(* show_directory_dialog resolves: write_config is requested *)
DirectoryDialogResolves ==
  /\ config.pc = "dialog"
  /\ config' = [config EXCEPT !.pc = "write"]
  /\ Tracking

(* write_config resolves: finally { hideOverlay() }, the function returns *)
WriteConfigResolves ==
  /\ config.pc = "write"
  /\ config' = [hideOverlay(config) EXCEPT !.pc = "done"]
  /\ Tracking

(* one of the three requests rejects: after finally { hideOverlay() } when *)
(* the overlay had been shown, the catch block asks dialog.confirm         *)
ConfigRequestRejects ==
  /\ config.pc \in {"read", "dialog", "write"}
  /\ config' = [(IF config.pc = "read" THEN config ELSE hideOverlay(config))
                  EXCEPT !.pc = "confirm"]
  /\ Tracking

(* dialog.confirm resolves: on "重试" the function calls itself *)
ConfirmResolves(shouldRetry) ==
  /\ config.pc = "confirm"
  /\ shouldRetry => config.retries < MaxRetries
  /\ config' = IF shouldRetry
               THEN [config EXCEPT !.pc = "read", !.retries = @ + 1]
               ELSE [config EXCEPT !.pc = "done"]
  /\ Tracking

(* dialog.confirm rejects: the function's promise rejects *)
ConfirmRejects ==
  /\ config.pc = "confirm"
  /\ config' = [config EXCEPT !.pc = "rejected"]
  /\ Tracking

(* the promise of waitForTauri is resolved; a second call of resolve would *)
(* leave the value as it is                                                *)
resolve(b, value) ==
  [b EXCEPT !.settled = IF @ = "pending" THEN value ELSE @,
            !.resolves = @ + 1]

(* the interval callback of waitForTauri with the interval left running    *)
(* after the last attempt                                                  *)
waitForTauriPoll_unbounded(hasInvoke, hasListen) ==
  /\ boot.polling
  /\ boot.attempts <= maxAttempts
  /\ now' = now + pollDelay
  /\ LET b == [boot EXCEPT !.attempts = @ + 1,
                           !.firstAvailable =
                              IF @ = 0 /\ hasInvoke /\ hasListen
                              THEN boot.attempts + 1 ELSE @]
     IN boot' = IF hasInvoke /\ hasListen
                THEN [resolve(b, "true") EXCEPT !.polling = FALSE]
                ELSE IF b.attempts >= maxAttempts
                     THEN resolve(b, "false")
                     ELSE b
  /\ UNCHANGED <<nextSweep, activeTasks, lastUpdateTimes, timers, invoked, doc,
                 domOps, thrown, rpcs, subs, hist, prevPass, config, fm, sw>>

(* the interval callback of waitForTauri, pollDelay after the previous     *)
(* one: attempts++, then the host interface (core.invoke and event.listen) *)
(* is there and the promise resolves true, or this was the last attempt    *)
(* and it resolves false; either way the interval is cleared               *)
waitForTauriPoll(hasInvoke, hasListen) ==
  /\ boot.polling
  /\ now' = now + pollDelay
  /\ LET b == [boot EXCEPT !.attempts = @ + 1,
                           !.firstAvailable =
                              IF @ = 0 /\ hasInvoke /\ hasListen
                              THEN boot.attempts + 1 ELSE @]
     IN boot' = IF hasInvoke /\ hasListen
                THEN [resolve(b, "true") EXCEPT !.polling = FALSE]
                ELSE IF b.attempts >= maxAttempts
                     THEN [resolve(b, "false") EXCEPT !.polling = FALSE]
                     ELSE b
  /\ UNCHANGED <<nextSweep, activeTasks, lastUpdateTimes, timers, invoked, doc,
                 domOps, thrown, rpcs, subs, hist, prevPass, config, fm, sw>>

(* waitForTauri().then(tauriReady => ...): without the host interface the  *)
(* callback logs and returns; with it, it calls checkDataDirConfig, starts *)
(* the sweep and subscribes the event channels                             *)
waitForTauriThen ==
  /\ boot.settled # "pending"
  /\ ~boot.ran
  /\ IF boot.settled = "true"
     THEN /\ boot' = [boot EXCEPT !.ran = TRUE, !.listening = TRUE, !.sweeping = TRUE]
          /\ config' = [config EXCEPT !.pc = "read"]
          /\ nextSweep' = now + sweepInterval
     ELSE /\ boot' = [boot EXCEPT !.ran = TRUE]
          /\ UNCHANGED <<config, nextSweep>>
  /\ UNCHANGED <<now, activeTasks, lastUpdateTimes, timers, invoked, doc,
                 domOps, thrown, rpcs, subs, hist, prevPass, fm, sw>>

(* ---- the file manager (src/filemanager/main.js) ---- *)

(* a loadFileList(clearMode) can be followed: a new get_maps request, if   *)
(* it makes one, is within the requests examined                           *)
FmRoom(f, clearMode) ==
  (clearMode >= 1 \/ f.p = 0) => Len(f.calls) < MaxCalls

(* loadFileList(clearMode) up to its await: clearMode 1 and 2 delete       *)
(* getMaps.p; getMaps() returns getMaps.p, set to a new get_maps request   *)
(* only if it is undefined (??=)                                           *)
loadFileList(f, clearMode, awaited) ==
  LET p1 == IF clearMode >= 1 THEN 0 ELSE f.p
      calls == IF p1 = 0
               THEN Append(f.calls, [asked |-> f.epoch, state |-> "pending"])
               ELSE f.calls
      p2 == IF p1 = 0 THEN Len(calls) ELSE p1
  IN [f EXCEPT !.calls = calls,
               !.p = p2,
               !.loaders = @ \cup {[call |-> p2, since |-> f.epoch,
                                    batch |-> awaited]}]

(* a backend operation has completed *)
completed(f) == [f EXCEPT !.epoch = @ + 1]

(* applyFilters: loadFileList() *)
applyFilters ==
  /\ FmRoom(fm, 0)
  /\ fm' = loadFileList(fm, 0, FALSE)
  /\ Plugin /\ UNCHANGED sw

(* the mount, unmount or delete button of a group: the operation resolves  *)
(* and the handler calls loadFileList(1) without awaiting it               *)
GroupButtonClick ==
  /\ fm.epoch < MaxOps
  /\ FmRoom(fm, 1)
  /\ fm' = loadFileList(completed(fm), 1, FALSE)
  /\ Plugin /\ UNCHANGED sw

(* cleanupInvalidLinksBtn: cleanup_invalid_links resolves, then            *)
(* alert(result) and await loadFileList(0)                                 *)
CleanupClick ==
  /\ fm.epoch < MaxOps
  /\ FmRoom(completed(fm), 0)
  /\ fm' = loadFileList(completed(fm), 0, FALSE)
  /\ Plugin /\ UNCHANGED sw

(* a get_maps request resolves or rejects; getMaps.p keeps the promise *)
GetMapsSettles(i, resolved) ==
  /\ i \in 1..Len(fm.calls)
  /\ fm.calls[i].state = "pending"
  /\ fm' = [fm EXCEPT !.calls[i].state = IF resolved THEN "resolved" ELSE "rejected"]
  /\ Plugin /\ UNCHANGED sw

(* all three batch buttons enabled *)
enableButtons(f) == [f EXCEPT !.disabled = [b \in Buttons |-> FALSE]]

(* the batch function returns, or its promise rejects *)
exit(f) == [f EXCEPT !.batch.pc = "idle", !.batch.exited = TRUE]

(* after "await loadFileList(1)" of a batch function: the message of       *)
(* success (of batchDeleteFiles always, of the other two for a count above *)
(* 0), or straight to finally                                              *)
afterLoad(f) ==
  IF f.batch.kind = "batchDeleteBtn" \/ f.batch.count > 0
  THEN [f EXCEPT !.batch.pc = "okMsg"]
  ELSE exit(enableButtons(f))

(* loadFileList after its await: the list is built from the response, or   *)
(* the catch block writes the error text; a batch function that awaited it *)
(* goes on                                                                 *)
Render(l) ==
  /\ l \in fm.loaders
  /\ fm.calls[l.call].state # "pending"
  /\ LET f == [fm EXCEPT
                 !.loaders = @ \ {l},
                 !.shown = IF fm.calls[l.call].state = "resolved"
                           THEN [call |-> l.call, asked |-> fm.calls[l.call].asked,
                                 since |-> l.since]
                           ELSE NoList]
     IN fm' = IF l.batch THEN afterLoad(f) ELSE f
  /\ Plugin /\ UNCHANGED sw

(* updateSelection, after a checkbox change or toggleSelectAll: the three  *)
(* buttons are disabled exactly when nothing is selected                   *)
updateSelection(selectedCount) ==
  /\ fm' = [fm EXCEPT !.disabled = [b \in Buttons |-> selectedCount = 0],
                      !.batch.exited = FALSE]
  /\ Plugin /\ UNCHANGED sw

(* a click on an enabled batch button: batchMountGroups, batchUnmountGroups *)
(* or batchDeleteFiles disables the three buttons and reads the selection; *)
(* with none it awaits dialog.message, batchDeleteFiles awaits             *)
(* dialog.confirm, the other two start their loop, which invokes the       *)
(* backend for todo of the selected groups (those not yet mounted, or      *)
(* mounted) and is followed by await loadFileList(1)                       *)
BatchClick(kind, selected, todo) ==
  /\ fm.batch.pc = "idle"
  /\ ~fm.disabled[kind]
  /\ todo <= selected
  /\ kind = "batchDeleteBtn" => todo = selected
  /\ LET f == [fm EXCEPT
                 !.disabled = [b \in Buttons |-> TRUE],
                 !.batch = [pc |-> IF selected = 0 THEN "emptyMsg"
                                   ELSE IF kind = "batchDeleteBtn" THEN "confirm"
                                   ELSE "ops",
                            kind |-> kind, left |-> todo, count |-> 0,
                            exited |-> FALSE]]
     IN IF f.batch.pc = "ops" /\ todo = 0
        THEN /\ FmRoom(f, 1)
             /\ fm' = [loadFileList(f, 1, TRUE) EXCEPT !.batch.pc = "load"]
        ELSE fm' = f
  /\ Plugin /\ UNCHANGED sw

(* one turn of the loop of a batch function.  mount_group or unmount_group *)
(* resolves and is counted, or rejects and is caught inside the loop;      *)
(* batchDeleteFiles invokes unmount_group, caught, and then delete_group,  *)
(* whose rejection leaves the loop for the catch block.  After the last    *)
(* turn the function awaits loadFileList(1).                               *)
BatchRpcSettles(resolved, unmounted) ==
  /\ fm.batch.pc = "ops"
  /\ fm.batch.left > 0
  /\ fm.batch.kind # "batchDeleteBtn" => ~unmounted
  /\ (resolved \/ unmounted) => fm.epoch < MaxOps
  /\ LET f == IF resolved \/ unmounted THEN completed(fm) ELSE fm
         g == [f EXCEPT !.batch.left = @ - 1,
                        !.batch.count = IF resolved THEN @ + 1 ELSE @]
     IN IF fm.batch.kind = "batchDeleteBtn" /\ ~resolved
        THEN fm' = [f EXCEPT !.batch.pc = "errMsg"]
        ELSE IF g.batch.left = 0
             THEN /\ FmRoom(g, 1)
                  /\ fm' = [loadFileList(g, 1, TRUE) EXCEPT !.batch.pc = "load"]
             ELSE fm' = g
  /\ Plugin /\ UNCHANGED sw

(* a dialog call of a batch function resolves: after the message for an    *)
(* empty selection and after a declined confirmation the buttons are       *)
(* enabled and the function returns; a confirmed deletion starts the loop; *)
(* after the message of success or of failure finally enables the buttons  *)
BatchDialogResolves(confirmed) ==
  /\ fm.batch.pc \in {"emptyMsg", "confirm", "okMsg", "errMsg"}
  /\ fm.batch.pc # "confirm" => confirmed
  /\ fm' = IF fm.batch.pc = "confirm" /\ confirmed
           THEN [fm EXCEPT !.batch.pc = "ops"]
           ELSE exit(enableButtons(fm))
  /\ Plugin /\ UNCHANGED sw

(* a dialog call of a batch function rejects: the message for an empty     *)
(* selection and the confirmation are awaited outside try, so the          *)
(* function's promise rejects there; the message of success is inside try  *)
(* and its rejection is caught; after the message of failure, in the catch *)
(* block, finally still runs                                               *)
BatchDialogRejects ==
  /\ fm.batch.pc \in {"emptyMsg", "confirm", "okMsg", "errMsg"}
  /\ fm' = IF fm.batch.pc = "okMsg" THEN [fm EXCEPT !.batch.pc = "errMsg"]
           ELSE IF fm.batch.pc = "errMsg" THEN exit(enableButtons(fm))
           ELSE exit(fm)
  /\ Plugin /\ UNCHANGED sw

(* ---- the service worker (part_002) ---- *)

(* String.prototype.startsWith on paths *)
startsWith(s, prefix) ==
  /\ Len(s) >= Len(prefix)
  /\ SubSeq(s, 1, Len(prefix)) = prefix

(* the requests the fetch handler answers itself *)
handled(r) ==
  /\ r.origin.hostname = location.hostname
  /\ \/ r.pathname = <<"/">>
     \/ startsWith(r.pathname, <<"/", "assets", "/">>)
     \/ startsWith(r.pathname, <<"/", "static", "/">>)

(* the fetch handler: a request of another host or path is left to the     *)
(* browser; otherwise caches.match(request), then fetch(request) whatever  *)
(* was found, and the cached response, if any, is the answer               *)
FetchEvent(r) ==
  /\ handled(r)
  /\ Len(sw.fetches) < MaxFetches
  /\ sw' = [sw EXCEPT !.fetches =
              Append(@, [request |-> r, cached |-> sw.cache[r], state |-> "pending",
                         response |-> NoResponse, answer |-> sw.cache[r]])]
  /\ Plugin /\ UNCHANGED fm

(* the network fetch resolves and every response is put into the cache *)
NetworkResolves_anyStatus(i, ok) ==
  /\ i \in 1..Len(sw.fetches)
  /\ sw.fetches[i].state = "pending"
  /\ LET response == [n |-> i, ok |-> ok]
         f == sw.fetches[i]
     IN sw' = [sw EXCEPT
                 !.fetches[i].state = "resolved",
                 !.fetches[i].response = response,
                 !.fetches[i].answer = IF f.cached = NoResponse THEN response ELSE @,
                 !.puts = @ \cup {[request |-> f.request, response |-> response]}]
  /\ Plugin /\ UNCHANGED fm

(* the network fetch resolves: a response with ok is cloned and            *)
(* caches.open(CACHE_NAME).then(cache => cache.put(...)) is started; the   *)
(* response is the answer when nothing was cached                          *)
NetworkResolves(i, ok) ==
  /\ i \in 1..Len(sw.fetches)
  /\ sw.fetches[i].state = "pending"
  /\ LET response == [n |-> i, ok |-> ok]
         f == sw.fetches[i]
     IN sw' = [sw EXCEPT
                 !.fetches[i].state = "resolved",
                 !.fetches[i].response = response,
                 !.fetches[i].answer = IF f.cached = NoResponse THEN response ELSE @,
                 !.puts = IF ok
                          THEN @ \cup {[request |-> f.request, response |-> response]}
                          ELSE @]
  /\ Plugin /\ UNCHANGED fm

(* the network fetch rejects: nothing is put, and respondWith fails when   *)
(* nothing was cached                                                      *)
NetworkRejects(i) ==
  /\ i \in 1..Len(sw.fetches)
  /\ sw.fetches[i].state = "pending"
  /\ sw' = [sw EXCEPT
              !.fetches[i].state = "rejected",
              !.fetches[i].answer =
                 IF sw.fetches[i].cached = NoResponse THEN NetworkError ELSE @]
  /\ Plugin /\ UNCHANGED fm

(* caches.open has resolved: cache.put(request, clonedResponse) *)
CachePut(p) ==
  /\ p \in sw.puts
  /\ sw' = [sw EXCEPT !.cache[p.request] = p.response, !.puts = @ \ {p}]
  /\ Plugin /\ UNCHANGED fm

(* the next instant at which a callback is due *)
NextDue ==
  LET dues == {nextSweep} \cup {t.due : t \in BagToSet(timers)}
  IN CHOOSE d \in dues : \A e \in dues : d <= e

(* time passes, never beyond the next due callback *)
Tick ==
  /\ now < MaxTime
  /\ now < NextDue
  /\ now' = Min(now + TimeStep, NextDue)
  /\ Elsewhere
  /\ Issue({})
  /\ UNCHANGED subs
  /\ domOps' = NoOps
  /\ thrown' = NoError
  /\ prevPass' = NoPass
  /\ UNCHANGED <<nextSweep, activeTasks, lastUpdateTimes, timers, doc, hist>>

(* the timed run of the tasks of TimedIds with well-formed payloads *)
Next ==
  \/ \E id \in TimedIds : DownloadProgress(id, TRUE)
  \/ \E id \in TimedIds, success \in BOOLEAN, saveonly \in BOOLEAN :
        DownloadComplete(id, success, saveonly)
  \/ \E id \in TimedIds : ExtractStart(id)
  \/ \E id \in TimedIds, success \in BOOLEAN : ExtractComplete(id, success)
  \/ \E id \in TimedIds : DownloadTaskStart(id)
  \/ \E id \in TimedIds : DownloadFailed(id)
  \/ \E id \in TimedIds : DownloadCanceled(id)
  \/ \E active \in SUBSET TimedIds : updateQueueDisplay(<<>>, active)
  \/ checkStalledDownloads
  \/ \E t \in BagToSet(timers) : removeTaskElement(t)
  \/ Tick

Spec == Init /\ [][Next]_vars

(* the waiting lists of the snapshots fed to the queue displays: up to     *)
(* MaxQueue tasks, each id once                                            *)
QueueLists ==
  {w \in UNION {[1..n -> TaskIds] : n \in 0..MaxQueue} :
     \A i, j \in 1..Len(w) : w[i] = w[j] => i = j}

QueueInit == InitWith(TRUE, FALSE)

(* queue snapshots of both channels and the extract-start of the tasks,   *)
(* the document tracked                                                    *)
QueueNext ==
  \/ \E waiting \in QueueLists, active \in SUBSET TaskIds :
        updateQueueDisplay(waiting, active)
  \/ \E waiting \in QueueLists, active \in SUBSET TaskIds :
        updateExtractQueueDisplay(waiting, active)
  \/ \E id \in TimedIds : ExtractStart(id)

QueueSpec == QueueInit /\ [][QueueNext]_vars

(* what the taskId of a payload can be: an id, or nothing *)
PayloadIds == TimedIds \cup {undefined}

EventInit == InitWith(TRUE, FALSE)

(* the lifecycle channels with well-formed and malformed payloads, the     *)
(* document tracked                                                        *)
EventNext ==
  \/ \E p \in PayloadIds \cup {NoPayload}, hasProgress \in BOOLEAN :
        DownloadProgress(p, hasProgress)
  \/ \E id \in PayloadIds, success \in BOOLEAN, saveonly \in BOOLEAN :
        DownloadComplete(id, success, saveonly)
  \/ \E id \in PayloadIds : ExtractStart(id)
  \/ \E id \in PayloadIds, success \in BOOLEAN : ExtractComplete(id, success)
  \/ \E id \in PayloadIds : DownloadTaskStart(id)
  \/ \E id \in PayloadIds : DownloadTaskAdd(id)
  \/ \E id \in PayloadIds : DownloadFailed(id)
  \/ \E id \in PayloadIds : DownloadCanceled(id)

EventSpec == EventInit /\ [][EventNext]_vars

(* ---- the controls of tasks and of the download queue: every click and   *)
(* the outcome of each backend call, with the document and the pending     *)
(* calls tracked; the clock stands still                                   *)
ClickInit == InitWith(TRUE, TRUE)

(* the waiting lists of these runs *)
ClickLists == {<<>>, <<"t2">>}

ClickNext ==
  \/ \E id \in TimedIds : DownloadProgress(id, TRUE)
  \/ \E id \in TimedIds : DownloadCanceled(id)
  \/ \E waiting \in ClickLists : updateQueueDisplay(waiting, {})
  \/ \E id \in TimedIds : CancelClick(id)
  \/ \E i \in 1..MaxQueue : QueueCancelClick(i)
  \/ CancelAllClick
  \/ RefreshClick
  \/ LoginButtonObserved
  \/ \E c \in rpcs.calls : RpcResolve(c)
  \/ \E c \in rpcs.calls : RpcReject(c)

ClickSpec == ClickInit /\ [][ClickNext]_vars

(* ---- extraction: dropped files, the extract events of tasks and of      *)
(* dropped files, and the controls of the extract queue                    *)
DropInit == InitWith(TRUE, TRUE)

DropNext ==
  \/ \E isArchive \in BOOLEAN : DropFile(isArchive)
  \/ DroppedExtractStart
  \/ \E success \in BOOLEAN, unlistens \in BOOLEAN :
        DroppedExtractComplete(success, unlistens)
  \/ \E id \in TimedIds : DownloadProgress(id, TRUE)
  \/ \E id \in TimedIds : ExtractStart(id)
  \/ \E id \in TimedIds, success \in BOOLEAN : ExtractComplete(id, success)
  \/ \E waiting \in ClickLists : updateExtractQueueDisplay(waiting, {})
  \/ \E i \in 1..MaxQueue : ExtractQueueCancelClick(i)
  \/ ExtractCancelAllClick
  \/ ExtractRefreshClick
  \/ \E c \in rpcs.calls : RpcResolve(c)
  \/ \E c \in rpcs.calls : RpcReject(c)

DropSpec == DropInit /\ [][DropNext]_vars

(* ---- queue snapshots between the terminal event of a task and its       *)
(* removal                                                                 *)
GraceInit == InitWith(TRUE, FALSE)

GraceNext ==
  \/ \E id \in TimedIds : DownloadProgress(id, TRUE)
  \/ \E id \in TimedIds, success \in BOOLEAN, saveonly \in BOOLEAN :
        DownloadComplete(id, success, saveonly)
  \/ \E id \in TimedIds, success \in BOOLEAN : ExtractComplete(id, success)
  \/ \E id \in TimedIds : DownloadFailed(id)
  \/ \E id \in TimedIds : DownloadCanceled(id)
  \/ \E waiting \in ClickLists, active \in SUBSET TimedIds :
        updateQueueDisplay(waiting, active)
  \/ \E waiting \in ClickLists, active \in SUBSET TimedIds :
        updateExtractQueueDisplay(waiting, active)

GraceSpec == GraceInit /\ [][GraceNext]_vars

(* ---- the stall sweep and the outcome of its cancel request, in time *)
StallInit == InitWith(FALSE, TRUE)

StallNext ==
  \/ \E id \in TimedIds : DownloadProgress(id, TRUE)
  \/ checkStalledDownloads
  \/ \E c \in rpcs.calls : RpcResolve(c)
  \/ \E c \in rpcs.calls : RpcReject(c)
  \/ \E t \in BagToSet(timers) : removeTaskElement(t)
  \/ Tick

StallSpec == StallInit /\ [][StallNext]_vars

(* ---- the warning banner in time *)
BannerInit == InitWith(TRUE, TRUE)

BannerNext ==
  \/ \E waiting \in ClickLists : updateQueueDisplay(waiting, {})
  \/ RefreshClick
  \/ InstallClick
  \/ \E id \in TimedIds : DownloadFailed(id)
  \/ \E c \in rpcs.calls : RpcResolve(c)
  \/ \E c \in rpcs.calls : RpcReject(c)
  \/ \E t \in BagToSet(timers) : hideBanner(t)
  \/ checkStalledDownloads
  \/ Tick

BannerSpec == BannerInit /\ [][BannerNext]_vars

(* ---- the progress text of a task, over payloads with several progress  *)
(* values                                                                  *)
ProgressInit == InitFrom([InitialDoc(TRUE) EXCEPT !.bars = TRUE], FALSE)

ProgressNext ==
  \/ \E id \in TimedIds : DownloadTaskStart(id)
  \/ \E id \in TimedIds, hasProgress \in BOOLEAN : DownloadProgress(id, hasProgress)
  \/ \E id \in TimedIds, success \in BOOLEAN, saveonly \in BOOLEAN :
        DownloadComplete(id, success, saveonly)

ProgressSpec == ProgressInit /\ [][ProgressNext]_vars

(* ---- checkDataDirConfig while events of a task arrive *)
ConfigNext ==
  \/ CheckDataDirConfig
  \/ \E configured \in BOOLEAN : ReadConfigResolves(configured)
  \/ DirectoryDialogResolves
  \/ WriteConfigResolves
  \/ ConfigRequestRejects
  \/ \E shouldRetry \in BOOLEAN : ConfirmResolves(shouldRetry)
  \/ ConfirmRejects
  \/ \E id \in TimedIds : DownloadTaskStart(id)
  \/ \E id \in TimedIds : DownloadProgress(id, TRUE)

ConfigSpec == Init /\ [][ConfigNext]_vars

(* ---- the containers' display values: a task that is shown, ends and     *)
(* fades out, and the snapshots of the download queue, with the document   *)
(* tracked and the clock running                                           *)
HideInit == InitWith(TRUE, FALSE)

HideNext ==
  \/ \E id \in TimedIds : DownloadProgress(id, TRUE)
  \/ \E id \in TimedIds : DownloadCanceled(id)
  \/ \E waiting \in ClickLists, active \in SUBSET TimedIds :
        updateQueueDisplay(waiting, active)
  \/ checkStalledDownloads
  \/ \E t \in BagToSet(timers) : removeTaskElement(t)
  \/ \E t \in BagToSet(timers) : fadeOut(t)
  \/ Tick

HideSpec == HideInit /\ [][HideNext]_vars

(* ---- the start-up: the polls of waitForTauri, its then callback, and    *)
(* after it the events and sweeps that the callback has made possible      *)
BootInit == InitAt(InitialDoc(FALSE), FALSE, InitialBoot)

BootNext ==
  \/ \E hasInvoke \in BOOLEAN, hasListen \in BOOLEAN :
        waitForTauriPoll(hasInvoke, hasListen)
  \/ waitForTauriThen
  \/ \E id \in TimedIds : boot.listening /\ DownloadProgress(id, TRUE)
  \/ boot.sweeping /\ checkStalledDownloads
  \/ \E t \in BagToSet(timers) : removeTaskElement(t)
  \/ boot.sweeping /\ Tick

BootSpec == BootInit /\ [][BootNext]_vars

(* ---- the file manager: filters, group buttons, the cleanup, the batch   *)
(* functions, and the get_maps requests settling                           *)
FileNext ==
  \/ applyFilters
  \/ GroupButtonClick
  \/ CleanupClick
  \/ \E i \in 1..MaxCalls, resolved \in BOOLEAN : GetMapsSettles(i, resolved)
  \/ \E l \in fm.loaders : Render(l)
  \/ \E selectedCount \in 0..1 : updateSelection(selectedCount)
  \/ \E kind \in Buttons, selected \in 0..MaxSelected, todo \in 0..MaxSelected :
        BatchClick(kind, selected, todo)
  \/ \E resolved \in BOOLEAN, unmounted \in BOOLEAN :
        BatchRpcSettles(resolved, unmounted)
  \/ \E confirmed \in BOOLEAN : BatchDialogResolves(confirmed)
  \/ BatchDialogRejects

FileSpec == Init /\ [][FileNext]_vars

(* ---- the service worker: fetch events of every request, the network    *)
(* fetches settling and the cache writes                                   *)
SwNext ==
  \/ \E r \in Requests : FetchEvent(r)
  \/ \E i \in 1..MaxFetches, ok \in BOOLEAN : NetworkResolves(i, ok)
  \/ \E i \in 1..MaxFetches : NetworkRejects(i)
  \/ \E p \in sw.puts : CachePut(p)

SwSpec == Init /\ [][SwNext]_vars

(* ---- vocabulary of the properties ---- *)

(* statuses that are terminal whatever the payload was; DOWNLOADED is      *)
(* terminal only after a save-only download and is not counted here        *)
TerminalStatuses == {EXTRACTED, FAILED, CANCELED, EXTRACT_FAILED}

NonTerminalStatuses == {PENDING, DOWNLOADING, DOWNLOADED, EXTRACTING, STALLED}

Status(id) == activeTasks[id].status

(* a step in which the handler of a lifecycle event of id, or of a         *)
(* snapshot listing id as active, ran                                      *)
EventFor(id) ==
  \/ \E hasProgress \in BOOLEAN : DownloadProgress(id, hasProgress)
  \/ \E success \in BOOLEAN, saveonly \in BOOLEAN : DownloadComplete(id, success, saveonly)
  \/ ExtractStart(id)
  \/ \E success \in BOOLEAN : ExtractComplete(id, success)
  \/ DownloadTaskStart(id)
  \/ DownloadFailed(id)
  \/ DownloadCanceled(id)
  \/ \E waiting \in QueueLists, active \in SUBSET TaskIds :
        id \in active /\ updateQueueDisplay(waiting, active)

(* the task of id was marked by the sweep in this step *)
MarkedStalled(id) == StalledCancel(id) \in invoked'

(* C1: once a task has a terminal status, its status stays terminal for as *)
(* long as the task is in the map: no later update takes it back to a      *)
(* non-terminal status.                                                    *)
C1_TerminalWins ==
  [][\A id \in TaskIds :
       (Status(id) \in TerminalStatuses /\ Status(id)' # ABSENT)
         => Status(id)' \in TerminalStatuses]_vars

(* the edges of the task state machine; creation may start at PENDING or   *)
(* DOWNLOADING, a download may end before its first progress event, any    *)
(* non-terminal status may become CANCELED or STALLED, and removal is      *)
(* possible from every status                                              *)
ValidEdge(s, t) ==
  \/ t = ABSENT
  \/ s = ABSENT /\ t \in {PENDING, DOWNLOADING}
  \/ s = PENDING /\ t \in {DOWNLOADING, DOWNLOADED, FAILED}
  \/ s = DOWNLOADING /\ t \in {DOWNLOADED, FAILED}
  \/ s = DOWNLOADED /\ t = EXTRACTING
  \/ s = EXTRACTING /\ t \in {EXTRACTED, EXTRACT_FAILED}
  \/ s \in NonTerminalStatuses /\ t \in {CANCELED, STALLED}

(* C2: every change of a task's status follows an edge of the state        *)
(* machine; in particular EXTRACTING is entered only from DOWNLOADED and   *)
(* EXTRACTED / EXTRACT_FAILED only from EXTRACTING.                        *)
C2_ValidTransitions ==
  [][\A id \in TaskIds :
       Status(id)' # Status(id) => ValidEdge(Status(id), Status(id)')]_vars

(* C3: a task that is already marked STALLED is not marked again and gets  *)
(* no second stalled-cancel request before it is removed.                  *)
C3_StallFiresOnce ==
  [][\A id \in TaskIds : Status(id) = STALLED => ~MarkedStalled(id)]_vars

(* C4: the sweep never marks, and never issues a stalled-cancel for, a     *)
(* task whose status is PENDING, DOWNLOADED, FAILED, CANCELED, EXTRACTED   *)
(* or EXTRACT_FAILED.                                                      *)
C4_StallOnlyFromRunning ==
  [][\A id \in TaskIds :
       Status(id) \in {PENDING, DOWNLOADED, FAILED, CANCELED, EXTRACTED, EXTRACT_FAILED}
         => (~MarkedStalled(id) /\ Status(id)' # STALLED)]_vars

(* C5: a task is marked STALLED only when more than stallThreshold has     *)
(* passed since the most recent event delivered for its id.                *)
C5_NoStallWithinThreshold ==
  [][\A id \in TaskIds :
       (MarkedStalled(id) \/ (Status(id) # STALLED /\ Status(id)' = STALLED))
         => now - hist[id].at > stallThreshold]_vars

(* C6: after the handler of an event that creates or updates the task of   *)
(* id has run, lastUpdateTimes[id] is the current time.                    *)
C6_EventsAdvanceLastUpdate ==
  [][\A id \in TaskIds :
       (EventFor(id) /\ Has(id)') => lastUpdateTimes'[id] = now']_vars

(* the longest a silent task can stay: the threshold, the wait for the     *)
(* next sweep, and the removal delay after the mark                        *)
SilenceLimit == stallThreshold + sweepInterval + stalledRemoveDelay

(* C7: a task that entered the map by its only event and has received      *)
(* nothing since is gone once the silence exceeds SilenceLimit (it has     *)
(* been marked STALLED and removed).                                       *)
C7_SilentTaskRemoved ==
  \A id \in TaskIds :
    (Has(id) /\ hist[id].n = 1) => now - hist[id].at <= SilenceLimit

(* the first sweep at which a task last updated at t0 is older than the    *)
(* threshold                                                               *)
FirstSweepAfter(t0) == sweepInterval * (((t0 + stallThreshold) \div sweepInterval) + 1)

(* Scenario 4 in a state: the only event ever delivered for id put it into *)
(* DOWNLOADING at hist[id].at                                              *)
Scenario4State(id) ==
  LET S == FirstSweepAfter(hist[id].at) IN
  /\ Status(id) = DOWNLOADING =>
       /\ now <= S
       /\ now = S => nextSweep = S
  /\ Status(id) = STALLED =>
       /\ S <= now
       /\ now <= S + stalledRemoveDelay
       /\ BagIn([taskId |-> id, due |-> S + stalledRemoveDelay, cb |-> "stalled",
               stale |-> FALSE], timers)

Scenario4Step(id) ==
  LET S == FirstSweepAfter(hist[id].at) IN
  /\ Status(id) = DOWNLOADING =>
       /\ Status(id)' \in {DOWNLOADING, STALLED}
       /\ Status(id)' = STALLED <=> (nextSweep' # nextSweep /\ now = S)
       /\ Status(id)' = STALLED <=> MarkedStalled(id)
  /\ Status(id) = STALLED =>
       /\ Status(id)' \in {STALLED, ABSENT}
       /\ Status(id)' = ABSENT => now = S + stalledRemoveDelay

C9_CancelOnReactivation ==
  [][\A id \in TaskIds :
       (/\ Status(id) \in TerminalStatuses \cup {STALLED}
        /\ TimersOf(id) # {}
        /\ Status(id)' \in {PENDING, DOWNLOADING, EXTRACTING})
         => TimersOf(id)' = {}]_vars

(* C10: a task that entered FAILED at time T by the last event of its id   *)
(* is not removed before T + failedRemoveDelay.                            *)
C10_FailedGrace ==
  [][\A id \in TaskIds :
       (Status(id) = FAILED /\ hist[id].changed /\ Status(id)' = ABSENT)
         => now >= hist[id].at + failedRemoveDelay]_vars

(* the step armed exactly one removal timer for id, due after delay ms *)
Armed(id, delay) ==
  timers' = timers (+) SetToBag({[taskId |-> id, due |-> now + delay, cb |-> "remove",
                                  stale |-> FALSE]})

(* C11 as stated: the handler of a terminal event of a tracked task arms   *)
(* one removal timer: 5s after a successful save-only download-complete,   *)
(* 5s after a successful extract-complete, 10s after download-failed, 10s  *)
(* after a failed extract-complete, 5s after download-canceled.            *)
C11_RemovalDelaysStated ==
  [][\A id \in TaskIds : Has(id) =>
       /\ DownloadComplete(id, TRUE, TRUE) => Armed(id, 5000)
       /\ ExtractComplete(id, TRUE) => Armed(id, 5000)
       /\ DownloadFailed(id) => Armed(id, 10000)
       /\ ExtractComplete(id, FALSE) => Armed(id, 10000)
       /\ DownloadCanceled(id) => Armed(id, 5000)]_vars

(* C11 amended: as above, but extract-complete arms 5s whether it          *)
(* succeeded or failed.                                                    *)
C11_RemovalDelays ==
  [][\A id \in TaskIds : Has(id) =>
       /\ DownloadComplete(id, TRUE, TRUE) => Armed(id, 5000)
       /\ ExtractComplete(id, TRUE) => Armed(id, 5000)
       /\ DownloadFailed(id) => Armed(id, 10000)
       /\ ExtractComplete(id, FALSE) => Armed(id, 5000)
       /\ DownloadCanceled(id) => Armed(id, 5000)]_vars

(* a failed extract-complete has just been handled and its timer is due in 5s *)
C11_Witness ==
  \E id \in TaskIds :
    /\ Status(id) = EXTRACT_FAILED
    /\ hist[id].changed
    /\ hist[id].at = now
    /\ \E t \in TimersOf(id) : t.cb = "remove" /\ t.due = now + 5000

(* C12: from a state in which download-complete (success, not save-only)   *)
(* has set DOWNLOADED within the last 2s and no removal timer of the id is *)
(* pending, a step that delivers no event for the id leaves the status     *)
(* DOWNLOADED and arms no removal timer for the id.                        *)
C12_Scenario3 ==
  [][\A id \in TaskIds :
       ( /\ Status(id) = DOWNLOADED
         /\ hist[id].changed
         /\ now - hist[id].at <= 2000
         /\ TimersOf(id) = {}
         /\ ~EventFor(id) )
       => (Status(id)' = DOWNLOADED /\ TimersOf(id)' = {})]_vars

(* the ids of a waiting list *)
Listed(waiting) == {waiting[i] : i \in 1..Len(waiting)}

(* entries shows the tasks of waiting in order, numbered 1..N when a task  *)
(* is active and all 0 when none is                                        *)
Contiguous(entries, waiting, active) ==
  /\ Len(entries) = Len(waiting)
  /\ \A i \in 1..Len(waiting) :
       /\ entries[i].id = waiting[i]
       /\ entries[i].position = IF active # {} THEN i ELSE 0

C15_ExtractSynthesizes ==
  [][( /\ prevPass'.kind = "extract"
       /\ updateExtractQueueDisplay(prevPass'.waiting, prevPass'.active) ) =>
         \A id \in prevPass'.active :
           ~Has(id) => /\ Has(id)'
                       /\ Status(id)' = EXTRACTING
                       /\ lastUpdateTimes'[id] = now]_vars

(* the step is updateQueueDisplay with the snapshot of the step before *)
SecondPass ==
  /\ prevPass.kind = "download"
  /\ updateQueueDisplay(prevPass.waiting, prevPass.active)

C17_PrunedBySecondPass ==
  [][\A id \in TaskIds :
       ( /\ Has(id)
         /\ TimersOf(id) = {}
         /\ prevPass.kind = "download"
         /\ id \notin prevPass.active \cup Listed(prevPass.waiting)
         /\ prevPass'.kind = "download"
         /\ id \notin prevPass'.active \cup Listed(prevPass'.waiting)
         /\ updateQueueDisplay(prevPass'.waiting, prevPass'.active) )
       => ~Has(id)']_vars

(* C18: download-task-start for an id that has an entry with a status of   *)
(* a running download leaves the entry, its status and its element as     *)
(* they were, creates no second element, and sets the timestamp of the id  *)
(* to the time of the event.                                               *)
C18_DuplicateStartNoOp ==
  [][\A id \in TaskIds :
       (Has(id) /\ Status(id) \in {PENDING, DOWNLOADING} /\ DownloadTaskStart(id)) =>
         /\ activeTasks'[id] = activeTasks[id]
         /\ doc'.elems[id] = doc.elems[id]
         /\ lastUpdateTimes'[id] = now]_vars

(* C19: the downloads container never holds two task elements of the same *)
(* task id.                                                                *)
C19_OneElementPerTask ==
  \A id \in TaskIds : doc.elems[id] <= 1

(* a step in which a handler of a lifecycle channel ran on a payload       *)
(* without taskId, or without payload                                      *)
MalformedDelivery ==
  \/ \E hasProgress \in BOOLEAN : DownloadProgress(NoPayload, hasProgress)
  \/ \E hasProgress \in BOOLEAN : DownloadProgress(undefined, hasProgress)
  \/ \E success \in BOOLEAN, saveonly \in BOOLEAN :
        DownloadComplete(undefined, success, saveonly)
  \/ ExtractStart(undefined)
  \/ \E success \in BOOLEAN : ExtractComplete(undefined, success)
  \/ DownloadTaskStart(undefined)
  \/ DownloadTaskAdd(undefined)
  \/ DownloadFailed(undefined)
  \/ DownloadCanceled(undefined)

(* C20: a handler of a lifecycle channel given a payload without taskId,   *)
(* or no payload, does not throw and leaves the map of tasks, the map of   *)
(* timestamps and the rendered task elements as they were.                 *)
C20_MalformedDropped ==
  [][MalformedDelivery =>
       /\ thrown' = NoError
       /\ activeTasks' = activeTasks
       /\ lastUpdateTimes' = lastUpdateTimes
       /\ doc' = doc]_vars

(* C22: a removal timer that was pending when the entry of its id was      *)
(* removed never removes an entry of that id: when a removal callback      *)
(* deletes an entry, its timer was armed for that entry.                   *)
C22_NoDanglingRemoval ==
  [][\A t \in BagToSet(timers) :
       (removeTaskElement(t) /\ Has(t.taskId)) => ~t.stale]_vars

(* the handler of an event that refers to a task ran for id *)
TaskEvent(id) ==
  \/ \E success \in BOOLEAN, saveonly \in BOOLEAN : DownloadComplete(id, success, saveonly)
  \/ DownloadCanceled(id)
  \/ ExtractStart(id)
  \/ \E success \in BOOLEAN : ExtractComplete(id, success)

C24_TerminalCancelOff ==
  \A id \in TaskIds :
    (Has(id) /\ Status(id) \in TerminalStatuses) =>
      (~activeTasks[id].cancelAttached \/ activeTasks[id].cancelDisabled)

(* a click on a cancel control: of a task, of a waiting entry, or cancel   *)
(* all                                                                     *)
UserCancel ==
  \/ \E id \in TaskIds : CancelClick(id)
  \/ \E i \in 1..MaxQueue : QueueCancelClick(i)
  \/ CancelAllClick

CancelCommands ==
  {"cancel_download", "cancel_all_downloads", "cancel_extract", "cancel_all_extracts"}

(* the promise of a pending cancel request of a control settles *)
CancelSettles ==
  \E c \in rpcs.calls :
    /\ c.call.cmd \in CancelCommands
    /\ c.onReject = "banner"
    /\ RpcResolve(c) \/ RpcReject(c)

(* C23: a click on a cancel control issues its request and nothing else,   *)
(* and neither the click nor the settling of the request, resolved or      *)
(* rejected, changes an entry's status and button, its lastUpdateTimes     *)
(* entry or its pending timers, or an element.                             *)
C23_CancelOnlyRequests ==
  [][(UserCancel \/ CancelSettles) =>
       /\ activeTasks' = activeTasks
       /\ lastUpdateTimes' = lastUpdateTimes
       /\ \A id \in TaskIds : TimersOf(id)' = TimersOf(id)
       /\ doc'.elems = doc.elems
       /\ UserCancel => (doc' = doc /\ timers' = timers /\ invoked' # {})]_vars

(* a task's cancel request was rejected while its removal timer is pending *)
(* and the failure is shown: the entry is as its last event left it        *)
C23_Witness ==
  \E id \in TaskIds :
    /\ Has(id)
    /\ TimersOf(id) # {}
    /\ doc.warning.text = CancelFailedText
    /\ Awaited(CancelCall(id), CancelFailedText, controlBannerDelay) \notin rpcs.calls
    /\ Awaited(CancelAllCall, CancelAllFailedText, controlBannerDelay) \in rpcs.calls

(* C25: the control of cancel-one, cancel-all and refresh is disabled      *)
(* before its request is issued and stays so while the request is pending: *)
(* the click leaves the task's button disabled, and a control whose        *)
(* request is pending takes no click.                                      *)
C25_DisabledInFlight ==
  [][/\ \A id \in TaskIds :
          CancelClick(id) =>
            /\ activeTasks'[id].cancelDisabled
            /\ Awaited(CancelCall(id), CancelFailedText, controlBannerDelay)
                 \notin rpcs.calls
     /\ CancelAllClick =>
          Awaited(CancelAllCall, CancelAllFailedText, controlBannerDelay)
            \notin rpcs.calls
     /\ RefreshClick =>
          Awaited(RefreshCall, RefreshFailedText, controlBannerDelay)
            \notin rpcs.calls]_vars

ControlCommands ==
  CancelCommands \cup {"refresh_download_queue", "refresh_extract_queue"}

(* C26: the rejection of a cancel or refresh request is caught where the   *)
(* request was made, whichever call site that is: it never surfaces as an  *)
(* unhandled rejection, and the request of a click shows its failure in    *)
(* the banner.                                                             *)
C26_RejectionsCaught ==
  [][\A c \in rpcs.calls :
       (c.call.cmd \in ControlCommands /\ RpcReject(c)) =>
         /\ thrown' = NoError
         /\ c.onReject = "banner" =>
              (doc'.warning.display = "block" /\ doc'.warning.text = c.text)]_vars

(* C27: whatever the user does, dropping files included, exactly one       *)
(* listener is registered on extract-start and one on extract-complete.    *)
C27_OneSubscription ==
  subs.extractStart = 1 /\ subs.extractComplete = 1

(* a removal timer of id is pending after a terminal event of id *)
InGrace(id) ==
  /\ Has(id)
  /\ \E t \in TimersOf(id) : t.cb = "remove" /\ ~t.stale

(* C28: a pass of updateQueueDisplay or updateExtractQueueDisplay keeps    *)
(* the entry, the elements and the timers of every task whose removal      *)
(* timer is pending, also when the snapshot does not list the task.        *)
C28_PassKeepsGrace ==
  [][\A id \in TaskIds :
       (prevPass' # NoPass /\ InGrace(id)) =>
         /\ activeTasks'[id] = activeTasks[id]
         /\ doc'.elems[id] = doc.elems[id]
         /\ TimersOf(id)' = TimersOf(id)]_vars

(* a pass whose snapshot does not list the task has run while the task's   *)
(* removal timer is pending                                                *)
C28_Witness ==
  \E id \in TaskIds :
    /\ prevPass.kind = "download"
    /\ id \notin prevPass.active
    /\ \A i \in 1..Len(prevPass.waiting) : prevPass.waiting[i] # id
    /\ InGrace(id)
    /\ Status(id) \in TerminalStatuses

(* C29: when the sweep's cancel request is rejected, no unhandled          *)
(* rejection escapes and no banner is shown, and the removal timer of the  *)
(* stalled task and its entry stay as the sweep left them.                 *)
C29_StalledCancelBestEffort ==
  [][\A c \in rpcs.calls :
       (c.call.reason = "stalled" /\ RpcReject(c)) =>
         /\ thrown' = NoError
         /\ doc'.warning = doc.warning
         /\ timers' = timers
         /\ activeTasks' = activeTasks]_vars

(* C30: an error banner is hidden no earlier than its own duration after   *)
(* it was shown (5s for a failed cancel or refresh, 10s for a failed       *)
(* install and for download-failed), also when the timer of an earlier     *)
(* banner fires in between.                                                *)
C30_BannerStaysItsDuration ==
  [][\A t \in BagToSet(timers) :
       (hideBanner(t) /\ doc.warning.display = "block" /\ doc.warning.ms > 0) =>
         now >= doc.warning.since + doc.warning.ms]_vars

(* d tenths is h hundredths rounded to one decimal place *)
RoundedTo(d, h) == 10 * d - 5 <= h /\ h < 10 * d + 5

(* C31: download-progress with progress p for an id whose entry            *)
(* download-task-start created leaves one entry for the id, with status    *)
(* DOWNLOADING and p rounded to one decimal place as its progress text,    *)
(* and creates no element.                                                 *)
C31_Scenario1 ==
  [][\A id \in TaskIds, h \in Progresses :
       (Status(id) = PENDING /\ DownloadProgressOf(id, TRUE, h)) =>
         /\ Has(id)'
         /\ Status(id)' = DOWNLOADING
         /\ RoundedTo(activeTasks'[id].progressText, h)
         /\ doc'.elems[id] = doc.elems[id]]_vars

(* the entry of Scenario 1: progress 42.37 is shown as 42.4 *)
C31_Witness ==
  \E id \in TaskIds :
    /\ Status(id) = DOWNLOADING
    /\ activeTasks[id].progressText = 424
    /\ doc.elems[id] = 1
    /\ hist[id].n = 2

(* C32: the overlay is visible whenever the directory dialog is open, in   *)
(* the first call and in every retry, and is not visible once the call has *)
(* left the dialog and the saving of its answer behind.                    *)
C32_OverlayWhileDialog ==
  /\ config.pc = "dialog" => OverlayVisible
  /\ config.pc \in {"confirm", "done", "rejected"} => ~OverlayVisible

(* C33: every id with a lastUpdateTimes entry has an activeTasks entry. *)
C33_TimesWithinTasks ==
  \A id \in TaskIds : lastUpdateTimes[id] # NoTime => Has(id)

(* C34: whenever the waiting list rendered by the latest                   *)
(* download-queue-update is not empty, the waiting queue is visible:       *)
(* neither queueContainer nor its parent downloadsContainer has display    *)
(* "none".                                                                 *)
C34_WaitingQueueVisible ==
  Len(doc.queue.entries) > 0 =>
    /\ doc.queue.display # "none"
    /\ doc.display # "none"

(* C37: waitForTauri resolves exactly once and terminates: a poll runs     *)
(* pollDelay after the previous one and there are at most maxAttempts;     *)
(* the promise resolves true at the first poll that finds the host         *)
(* interface and false at the last poll otherwise, and the interval is     *)
(* cleared with it; after false no event channel is subscribed and no      *)
(* sweep is started.                                                       *)
C37_WaitForTauri ==
  /\ boot.attempts <= maxAttempts
  /\ boot.resolves <= 1
  /\ boot.polling <=> boot.settled = "pending"
  /\ boot.polling => now = boot.attempts * pollDelay /\ boot.firstAvailable = 0
  /\ boot.settled = "pending" <=> boot.resolves = 0
  /\ boot.settled = "true" <=>
       (boot.firstAvailable # 0 /\ boot.attempts = boot.firstAvailable)
  /\ boot.settled = "false" <=>
       (boot.firstAvailable = 0 /\ boot.attempts = maxAttempts)
  /\ boot.settled = "false" =>
       ~boot.listening /\ ~boot.sweeping /\ nextSweep = sweepInterval
         /\ \A id \in Keys : ~Has(id)
  /\ (boot.listening \/ boot.sweeping) => boot.ran /\ boot.settled = "true"

(* the wait gave up after the last poll and the then callback returned *)
C37_Witness ==
  /\ boot.settled = "false"
  /\ boot.ran
  /\ now = maxAttempts * pollDelay

(* C35: the file list on the page is built from a get_maps response that   *)
(* was requested after the backend operations completed that preceded the  *)
(* loadFileList call which rendered it, never from a get_maps result       *)
(* cached before them.                                                     *)
C35_ListFromFreshResponse ==
  fm.shown # NoList => fm.shown.asked >= fm.shown.since

(* C36: the three batch buttons are disabled while batchMountGroups,       *)
(* batchUnmountGroups or batchDeleteFiles runs, and all three are enabled  *)
(* when it has finished, on every exit path.                               *)
C36_BatchButtons ==
  /\ fm.batch.pc # "idle" => \A b \in Buttons : fm.disabled[b]
  /\ fm.batch.exited => \A b \in Buttons : ~fm.disabled[b]

(* the requests the claim is about: same origin, and the path "/" or      *)
(* under "/assets/" or "/static/"                                          *)
Revalidated(r) ==
  /\ r.origin = location
  /\ \/ r.pathname = <<"/">>
     \/ \E rest \in Paths \cup {<<"a.js">>, <<"s.css">>} :
          r.pathname \in {<<"/", "assets", "/">> \o rest, <<"/", "static", "/">> \o rest}

(* C38: stale-while-revalidate.  A fetch event of such a request issues a  *)
(* network fetch whether or not a response is cached; the answer is the    *)
(* cached response when there is one and the network response otherwise;   *)
(* the cache is written only with a network response of the same request   *)
(* whose ok flag is true, and a fetch that fails or is not ok changes no   *)
(* cache entry and starts no write.                                        *)
C38_StaleWhileRevalidate ==
  [][
      /\ \A r \in Requests :
          (Revalidated(r) /\ Len(sw.fetches) < MaxFetches) =>
            /\ ENABLED FetchEvent(r)
            /\ FetchEvent(r) =>
                 /\ Len(sw'.fetches) = Len(sw.fetches) + 1
                 /\ sw'.fetches[Len(sw'.fetches)].request = r
                 /\ sw'.fetches[Len(sw'.fetches)].state = "pending"
      /\ \A i \in 1..Len(sw'.fetches) :
          LET f == sw'.fetches[i] IN
            /\ f.cached # NoResponse => f.answer = f.cached
            /\ (f.cached = NoResponse /\ f.state = "resolved") =>
                 f.answer = f.response /\ f.response.n = i
      /\ \A r \in Requests :
          sw'.cache[r] # sw.cache[r] =>
            /\ sw'.cache[r].ok
            /\ \E i \in 1..Len(sw.fetches) :
                 /\ sw.fetches[i].request = r
                 /\ sw.fetches[i].state = "resolved"
                 /\ sw.fetches[i].response = sw'.cache[r]
      /\ \A i \in 1..Len(sw.fetches) :
          (/\ sw.fetches[i].state = "pending"
           /\ \/ sw'.fetches[i].state = "rejected"
              \/ sw'.fetches[i].state = "resolved" /\ ~sw'.fetches[i].response.ok) =>
            sw'.cache = sw.cache /\ sw'.puts = sw.puts]_vars

(* a cached response was the answer while the network fetch of the same    *)
(* request came back not ok, and the cache entry is still the one of the   *)
(* first fetch                                                             *)
C38_Witness ==
  \E i \in 1..Len(sw.fetches) :
    LET f == sw.fetches[i] IN
      /\ f.cached # NoResponse
      /\ f.answer = f.cached
      /\ f.state = "resolved"
      /\ ~f.response.ok
      /\ sw.cache[f.request] = f.cached
      /\ sw.puts = {}

TypeOK ==
  /\ now \in 0..(MaxTime + TimeStep)
  /\ \A id \in TaskIds : lastUpdateTimes[id] <= now
====
